---- MODULE Spec2Model ----
(***************************************************************************)
(* The llex front end: App, SearchBar and ChatWindow, and the stream       *)
(* consumer ChatWindow runs for every active question.                     *)
(*                                                                         *)
(* Text is a sequence of Unicode code points, bytes are numbers 0..255.    *)
(* Str turns an ASCII literal into text, so that the records of the wire   *)
(* are written as they appear on it.                                       *)
(***************************************************************************)
EXTENDS Integers, Sequences, FiniteSets, TLC

(***************************************************************************)
(* Characters                                                              *)
(***************************************************************************)

\* The printable ASCII characters, in code order from 32 (space). Code 96
\* (the grave accent) cannot be written in a literal; its place holds a space.
Ascii == " !\"#$%&'()*+,-./0123456789:;<=>?@ABCDEFGHIJKLMNOPQRSTUVWXYZ[\\]^_ abcdefghijklmnopqrstuvwxyz{|}~"

\* The code point of a one-character literal.
Code(c) ==
  IF c = "\n" THEN 10
  ELSE IF c = "\r" THEN 13
  ELSE IF c = "\t" THEN 9
  ELSE 31 + (CHOOSE i \in 1..Len(Ascii) : SubSeq(Ascii, i, i) = c)

\* The text of an ASCII literal.
Str(s) == [i \in 1..Len(s) |-> Code(SubSeq(s, i, i))]

NL == Code("\n")
QUOTE == Code("\"")
BACKSLASH == Code("\\")
SLASH == Code("/")
COLON == Code(":")
COMMA == Code(",")
MINUS == Code("-")
LBRACE == Code("{")
RBRACE == Code("}")
LBRACKET == Code("[")
RBRACKET == Code("]")
ZERO == Code("0")
NINE == Code("9")
LetterF == Code("f")
LetterN == Code("n")
LetterR == Code("r")
LetterT == Code("t")
Spaces == {Code(" "), Code("\t"), Code("\r"), Code("\n")}

\* The code point the decoder puts for bytes that are not UTF-8 (U+FFFD).
Replacement == <<65533>>

\* White space as String.prototype.trim and the regular expression \s take it
\* (of the characters the model's wires carry: space, tab, CR, LF).
IsSpace(c) == c \in Spaces

\* The pieces of a sequence of sequences, one after the other.
RECURSIVE FlattenRange(_, _, _)
FlattenRange(f, lo, hi) ==
  IF lo > hi THEN <<>>
  ELSE IF lo = hi THEN f[lo]
  ELSE FlattenRange(f, lo, (lo + hi) \div 2) \o FlattenRange(f, (lo + hi) \div 2 + 1, hi)

Flatten(f) == FlattenRange(f, 1, Len(f))

Min(S) == CHOOSE x \in S : \A y \in S : x <= y
Max(S) == CHOOSE x \in S : \A y \in S : x >= y

\* How many characters of white space s begins with, and ends with.
LeadingSpaces(s) ==
  CHOOSE k \in 0..Len(s) :
    /\ \A j \in 1..k : IsSpace(s[j])
    /\ k = Len(s) \/ ~IsSpace(s[k + 1])
TrailingSpaces(s) ==
  CHOOSE k \in 0..Len(s) :
    /\ \A j \in 1..k : IsSpace(s[Len(s) + 1 - j])
    /\ k = Len(s) \/ ~IsSpace(s[Len(s) - k])

\* String.prototype.trimStart, and s.replace(/^\s*/, "")
TrimStart(s) == SubSeq(s, LeadingSpaces(s) + 1, Len(s))

\* String.prototype.trim
Trim(s) ==
  IF LeadingSpaces(s) = Len(s) THEN <<>>
  ELSE SubSeq(s, LeadingSpaces(s) + 1, Len(s) - TrailingSpaces(s))

\* String.prototype.startsWith
StartsWith(s, p) == Len(s) >= Len(p) /\ SubSeq(s, 1, Len(p)) = p

\* String.prototype.split("\n"): the pieces between the newlines, always at
\* least one piece. The k-th piece runs from after the (k-1)-th newline to
\* before the k-th.
Newlines(s) == {i \in 1..Len(s) : s[i] = NL}

\* The k-th of the places nl, in order; 0 for k = 0 and len + 1 after the last.
NthNewline(nl, len, k) ==
  IF k = 0 THEN 0
  ELSE IF k > Cardinality(nl) THEN len + 1
  ELSE CHOOSE i \in nl : Cardinality({j \in nl : j < i}) = k - 1

Split(s) ==
  LET nl == Newlines(s) IN
  [k \in 1..(Cardinality(nl) + 1) |->
     SubSeq(s, NthNewline(nl, Len(s), k - 1) + 1, NthNewline(nl, Len(s), k) - 1)]

(***************************************************************************)
(* UTF-8                                                                   *)
(***************************************************************************)

\* The bytes of one code point, as the server's encoder writes them.
Utf8(cp) ==
  IF cp < 128 THEN <<cp>>
  ELSE IF cp < 2048 THEN <<192 + (cp \div 64), 128 + (cp % 64)>>
  ELSE IF cp < 65536
    THEN <<224 + (cp \div 4096), 128 + ((cp \div 64) % 64), 128 + (cp % 64)>>
  ELSE <<240 + (cp \div 262144), 128 + ((cp \div 4096) % 64),
         128 + ((cp \div 64) % 64), 128 + (cp % 64)>>

\* The bytes of a text: the characters below 128 are their own bytes, so only
\* the stretch from the first to the last of the others is encoded one by one.
Utf8Encode(text) ==
  LET high == {i \in 1..Len(text) : text[i] >= 128} IN
  IF high = {} THEN text
  ELSE SubSeq(text, 1, Min(high) - 1)
       \o Flatten([i \in 1..(Max(high) - Min(high) + 1) |-> Utf8(text[Min(high) - 1 + i])])
       \o SubSeq(text, Max(high) + 1, Len(text))

\* How many bytes the sequence led by byte b takes; 0 when b leads nothing.
Utf8Need(b) ==
  IF b < 128 THEN 1
  ELSE IF b >= 194 /\ b <= 223 THEN 2
  ELSE IF b >= 224 /\ b <= 239 THEN 3
  ELSE IF b >= 240 /\ b <= 244 THEN 4
  ELSE 0

IsContinuation(b) == b >= 128 /\ b <= 191

\* The code point of a complete sequence.
Utf8CodePoint(bs) ==
  IF Len(bs) = 1 THEN bs[1]
  ELSE IF Len(bs) = 2 THEN (bs[1] - 192) * 64 + (bs[2] - 128)
  ELSE IF Len(bs) = 3
    THEN (bs[1] - 224) * 4096 + (bs[2] - 128) * 64 + (bs[3] - 128)
  ELSE (bs[1] - 240) * 262144 + (bs[2] - 128) * 4096
       + (bs[3] - 128) * 64 + (bs[4] - 128)

\* Whether place i of bs holds a continuation byte.
ContinuesAt(bs, i) == i >= 1 /\ i <= Len(bs) /\ IsContinuation(bs[i])

\* The continuation bytes that follow place i of bs, counted up to three: no
\* sequence takes more.
Run(bs, i) ==
  IF ~ContinuesAt(bs, i + 1) THEN 0
  ELSE IF ~ContinuesAt(bs, i + 2) THEN 1
  ELSE IF ~ContinuesAt(bs, i + 3) THEN 2
  ELSE 3

\* The byte that leads the sequence the continuation byte at i may belong to,
\* at most three places before it; 0 when there is none.
Lead(bs, i) ==
  IF i - 1 >= 1 /\ ~IsContinuation(bs[i - 1]) THEN i - 1
  ELSE IF i - 2 >= 1 /\ ~IsContinuation(bs[i - 2]) THEN i - 2
  ELSE IF i - 3 >= 1 /\ ~IsContinuation(bs[i - 3]) THEN i - 3
  ELSE 0

\* Whether the bytes from place i are the beginning of a sequence that the
\* end of bs cuts short.
CutShort(bs, i) ==
  /\ ~IsContinuation(bs[i])
  /\ Run(bs, i) < Utf8Need(bs[i]) - 1
  /\ i + Run(bs, i) = Len(bs)

\* What the decoder puts out for the byte at place i: the code point of a
\* complete sequence at its lead byte, U+FFFD for a byte that leads nothing,
\* for a sequence broken off by the next one and for a continuation byte
\* that belongs to no sequence, nothing for the other bytes.
Decoded(bs, i) ==
  IF bs[i] < 128 THEN <<bs[i]>>
  ELSE IF IsContinuation(bs[i])
    THEN IF Lead(bs, i) = 0 \/ i - Lead(bs, i) > Utf8Need(bs[Lead(bs, i)]) - 1
           THEN Replacement ELSE <<>>
  ELSE IF Utf8Need(bs[i]) = 0 THEN Replacement
  ELSE IF Run(bs, i) >= Utf8Need(bs[i]) - 1
    THEN <<Utf8CodePoint(SubSeq(bs, i, i + Utf8Need(bs[i]) - 1))>>
  ELSE IF CutShort(bs, i) THEN <<>>
  ELSE Replacement

\* TextDecoder("utf-8").decode(value, { stream: true }) on the bytes the decoder
\* kept from the last call followed by value: the text, and the bytes of an
\* incomplete sequence at the tail (its last three bytes at most), kept for
\* the next call. Bytes that are not UTF-8 become U+FFFD. (The decoder's
\* checks of overlong and surrogate forms are left out: every wire of the
\* model is the encoding of a text.) Bytes below 128 are their own
\* characters, so only the stretch from the first to the last of the others
\* is decoded byte by byte.
DecodeFrom(bs) ==
  LET high == {i \in 1..Len(bs) : bs[i] >= 128}
      cut == {i \in 1..Len(bs) : i >= Len(bs) - 2 /\ CutShort(bs, i)}
      kept == IF cut = {} THEN Len(bs) + 1 ELSE Min(cut)
      lo == Min(high)
      hi == IF Max(high) < kept THEN Max(high) ELSE kept - 1
  IN IF high = {} THEN [text |-> bs, pend |-> <<>>]
     ELSE [text |-> SubSeq(bs, 1, lo - 1)
                    \o Flatten([i \in 1..(hi - lo + 1) |-> Decoded(bs, lo - 1 + i)])
                    \o SubSeq(bs, hi + 1, kept - 1),
           pend |-> SubSeq(bs, kept, Len(bs))]

\* decode(value) without the stream option: an incomplete sequence at the tail
\* is not kept but decoded at once, to U+FFFD.
DecodeNoStream(pend, value) ==
  LET r == DecodeFrom(value)
  IN [text |-> IF r.pend = <<>> THEN r.text ELSE r.text \o Replacement,
      pend |-> <<>>]

DecodeStream(pend, value) == DecodeFrom(pend \o value)

(***************************************************************************)
(* JSON                                                                    *)
(*                                                                         *)
(* A value is [t, s, m]: t its type; s the text of a string, or the        *)
(* numeral of a number; m the members [k, v] of an object or array, in     *)
(* order.  The grammar is RFC 8259 without fractions, exponents and \u     *)
(* escapes, which no wire of the model uses.                               *)
(***************************************************************************)

JValue(t, s, m) == [t |-> t, s |-> s, m |-> m]
JFail == [ok |-> FALSE, v |-> JValue("null", <<>>, <<>>), i |-> 0]
JOk(v, i) == [ok |-> TRUE, v |-> v, i |-> i]

IsJsonSpace(c) == c \in Spaces
IsDigit(c) == c >= ZERO /\ c <= NINE

RECURSIVE SkipWs(_, _)
SkipWs(s, i) == IF i <= Len(s) /\ IsJsonSpace(s[i]) THEN SkipWs(s, i + 1) ELSE i

\* What an escape letter stands for; 0 when it is no escape of the grammar.
Unescape(c) ==
  IF c = QUOTE \/ c = BACKSLASH \/ c = SLASH THEN c
  ELSE IF c = LetterN THEN 10
  ELSE IF c = LetterR THEN 13
  ELSE IF c = LetterT THEN 9
  ELSE 0

\* The string whose opening quote is before index i.
RECURSIVE ParseChars(_, _, _)
ParseChars(s, i, acc) ==
  IF i > Len(s) THEN JFail
  ELSE IF s[i] = QUOTE THEN JOk(JValue("string", acc, <<>>), i + 1)
  ELSE IF s[i] = BACKSLASH
    THEN IF i + 1 > Len(s) \/ Unescape(s[i + 1]) = 0 THEN JFail
         ELSE ParseChars(s, i + 2, Append(acc, Unescape(s[i + 1])))
  ELSE IF s[i] < 32 THEN JFail
  ELSE ParseChars(s, i + 1, Append(acc, s[i]))

RECURSIVE DigitsEnd(_, _)
DigitsEnd(s, i) == IF i <= Len(s) /\ IsDigit(s[i]) THEN DigitsEnd(s, i + 1) ELSE i

\* -?(0|[1-9][0-9]*), kept as the numeral JSON.stringify prints for it.
ParseNumber(s, i) ==
  LET neg == s[i] = MINUS
      d == IF neg THEN i + 1 ELSE i
      e == DigitsEnd(s, d)
  IN IF e = d THEN JFail
     ELSE IF s[d] = ZERO /\ e > d + 1 THEN JFail
     ELSE IF s[d] = ZERO THEN JOk(JValue("number", <<ZERO>>, <<>>), e)
     ELSE JOk(JValue("number", SubSeq(s, i, e - 1), <<>>), e)

TextTrue == Str("true")
TextFalse == Str("false")
TextNull == Str("null")

LiteralText(word) ==
  IF word = "true" THEN TextTrue ELSE IF word = "false" THEN TextFalse ELSE TextNull

ParseLiteral(s, i, word) ==
  IF i + Len(word) - 1 <= Len(s) /\ SubSeq(s, i, i + Len(word) - 1) = LiteralText(word)
    THEN JOk(JValue(word, <<>>, <<>>), i + Len(word))
    ELSE JFail

\* An object keeps one member per key: a repeated key replaces the value in place.
PutMember(m, k, v) ==
  IF \E j \in 1..Len(m) : m[j].k = k
    THEN [j \in 1..Len(m) |-> IF m[j].k = k THEN [k |-> k, v |-> v] ELSE m[j]]
    ELSE Append(m, [k |-> k, v |-> v])

RECURSIVE ParseValue(_, _)
RECURSIVE ParseMembers(_, _, _)
RECURSIVE ParseElements(_, _, _)

\* The members after "{" or after a comma, up to and including "}".
ParseMembers(s, i0, m) ==
  LET i == SkipWs(s, i0) IN
  IF i > Len(s) \/ s[i] # QUOTE THEN JFail
  ELSE LET key == ParseChars(s, i + 1, <<>>) IN
    IF ~key.ok THEN JFail
    ELSE LET c == SkipWs(s, key.i) IN
      IF c > Len(s) \/ s[c] # COLON THEN JFail
      ELSE LET val == ParseValue(s, c + 1) IN
        IF ~val.ok THEN JFail
        ELSE LET e == SkipWs(s, val.i)
                 m2 == PutMember(m, key.v.s, val.v)
             IN IF e > Len(s) THEN JFail
                ELSE IF s[e] = COMMA THEN ParseMembers(s, e + 1, m2)
                ELSE IF s[e] = RBRACE THEN JOk(JValue("object", <<>>, m2), e + 1)
                ELSE JFail

\* The elements after "[" or after a comma, up to and including "]".
ParseElements(s, i0, m) ==
  LET val == ParseValue(s, i0) IN
  IF ~val.ok THEN JFail
  ELSE LET e == SkipWs(s, val.i)
           m2 == Append(m, [k |-> <<>>, v |-> val.v])
       IN IF e > Len(s) THEN JFail
          ELSE IF s[e] = COMMA THEN ParseElements(s, e + 1, m2)
          ELSE IF s[e] = RBRACKET THEN JOk(JValue("array", <<>>, m2), e + 1)
          ELSE JFail

ParseValue(s, i0) ==
  LET i == SkipWs(s, i0) IN
  IF i > Len(s) THEN JFail
  ELSE IF s[i] = QUOTE THEN ParseChars(s, i + 1, <<>>)
  ELSE IF s[i] = LBRACE
    THEN LET j == SkipWs(s, i + 1) IN
         IF j <= Len(s) /\ s[j] = RBRACE
           THEN JOk(JValue("object", <<>>, <<>>), j + 1)
           ELSE ParseMembers(s, i + 1, <<>>)
  ELSE IF s[i] = LBRACKET
    THEN LET j == SkipWs(s, i + 1) IN
         IF j <= Len(s) /\ s[j] = RBRACKET
           THEN JOk(JValue("array", <<>>, <<>>), j + 1)
           ELSE ParseElements(s, i + 1, <<>>)
  ELSE IF s[i] = LetterT THEN ParseLiteral(s, i, "true")
  ELSE IF s[i] = LetterF THEN ParseLiteral(s, i, "false")
  ELSE IF s[i] = LetterN THEN ParseLiteral(s, i, "null")
  ELSE IF s[i] = MINUS \/ IsDigit(s[i]) THEN ParseNumber(s, i)
  ELSE JFail

\* JSON.parse: ok is FALSE where JSON.parse throws a SyntaxError.
JSONparse(s) ==
  LET r == ParseValue(s, 1) IN
  IF r.ok /\ SkipWs(s, r.i) > Len(s) THEN r ELSE JFail

\* A string as JSON.stringify quotes it.
EscapeChar(c) ==
  IF c = QUOTE \/ c = BACKSLASH THEN <<BACKSLASH, c>>
  ELSE IF c = 10 THEN <<BACKSLASH, LetterN>>
  ELSE IF c = 13 THEN <<BACKSLASH, LetterR>>
  ELSE IF c = 9 THEN <<BACKSLASH, LetterT>>
  ELSE <<c>>

Escape(s) == Flatten([i \in 1..Len(s) |-> EscapeChar(s[i])])

Quoted(s) == <<QUOTE>> \o Escape(s) \o <<QUOTE>>

\* JSON.stringify of a parsed value.
RECURSIVE JSONstringify(_)
RECURSIVE StringifyMembers(_, _, _)
StringifyMembers(m, j, keyed) ==
  IF j > Len(m) THEN <<>>
  ELSE (IF j > 1 THEN <<COMMA>> ELSE <<>>)
       \o (IF keyed THEN Append(Quoted(m[j].k), COLON) ELSE <<>>)
       \o JSONstringify(m[j].v)
       \o StringifyMembers(m, j + 1, keyed)

JSONstringify(v) ==
  IF v.t = "string" THEN Quoted(v.s)
  ELSE IF v.t = "number" THEN v.s
  ELSE IF v.t = "object" THEN <<LBRACE>> \o StringifyMembers(v.m, 1, TRUE) \o <<RBRACE>>
  ELSE IF v.t = "array"
    THEN <<LBRACKET>> \o StringifyMembers(v.m, 1, FALSE) \o <<RBRACKET>>
  ELSE LiteralText(v.t)


(***************************************************************************)
(* ChatWindow: the record handler                                          *)
(*                                                                         *)
(* A view is what one call can change: latestAnswer of the effect's        *)
(* closure, answer and statusMessages of the component, and handled, the   *)
(* history of the lines handed to handleLine.                              *)
(***************************************************************************)

Undefined == JValue("undefined", <<>>, <<>>)
JString(s) == JValue("string", s, <<>>)

\* The names handleLine reads and compares with.
KeyEvent == Str("event")
KeyType == Str("type")
KeyPayload == Str("payload")
EventText == Str("text")
EventStatus == Str("status")
EventError == Str("error")
DataPrefix == Str("data:")

\* data[key] of a parsed value: undefined unless data is an object with the key.
Member(data, key) ==
  IF data.t = "object" /\ \E j \in 1..Len(data.m) : data.m[j].k = key
    THEN data.m[CHOOSE j \in 1..Len(data.m) : data.m[j].k = key].v
    ELSE Undefined

\* Whether a value counts as true in a || b.
Truthy(v) ==
  IF v.t \in {"undefined", "null", "false"} THEN FALSE
  ELSE IF v.t = "string" THEN v.s # <<>>
  ELSE IF v.t = "number" THEN v.s # <<ZERO>>
  ELSE TRUE

\* data.event || data.type
EventType(data) ==
  IF Truthy(Member(data, KeyEvent)) THEN Member(data, KeyEvent)
  ELSE Member(data, KeyType)

\* A switch whose first case takes every record.
IsAnyEvent(v, name) == TRUE

\* The case of the switch a value selects.
IsEvent(v, name) == v.t = "string" /\ v.s = name

\* The mark pushStatus puts before an error label: U+274C and a space.
ErrorPrefix == <<10060, 32>>

\* The label text pushStatus makes of a message.
LabelText(message) ==
  IF message.t = "string" THEN message.s
  ELSE IF message.t # "undefined" THEN JSONstringify(message)
  ELSE <<>>

\* A pushStatus that puts the new label first.
pushFirst(labels, message, isError) ==
  IF LabelText(message) = <<>> THEN labels
  ELSE <<IF isError THEN ErrorPrefix \o LabelText(message) ELSE LabelText(message)>>
         \o labels

pushStatus(labels, message, isError) ==
  IF LabelText(message) = <<>> THEN labels
  ELSE Append(labels, IF isError THEN ErrorPrefix \o LabelText(message)
                      ELSE LabelText(message))

\* A handler that parses the line as it stands.
CleanLineAsIs(line) == line

\* line.startsWith("data:") ? line.replace(/^data:\s*/, "") : line
CleanLine(line) ==
  IF StartsWith(line, DataPrefix) THEN TrimStart(SubSeq(line, 6, Len(line)))
  ELSE line

\* typeof data.payload === "string" ? data.payload : ""
TextPayload(data) ==
  IF Member(data, KeyPayload).t = "string" THEN Member(data, KeyPayload).s ELSE <<>>

\* A switch whose default case takes the record as text.
ApplyChunkOrText(v, data) ==
  IF IsEvent(EventType(data), EventStatus)
    THEN [v EXCEPT !.statusMessages = pushStatus(@, Member(data, KeyPayload), FALSE)]
  ELSE IF IsEvent(EventType(data), EventError)
    THEN [v EXCEPT !.statusMessages = pushStatus(@, Member(data, KeyPayload), TRUE)]
  ELSE [v EXCEPT !.latestAnswer = @ \o TextPayload(data),
                 !.answer = @ \o TextPayload(data)]

\* A switch whose error case drops the answer so far.
ApplyChunkErrorResets(v, data) ==
  IF IsEvent(EventType(data), EventText)
    THEN [v EXCEPT !.latestAnswer = @ \o TextPayload(data),
                   !.answer = @ \o TextPayload(data)]
  ELSE IF IsEvent(EventType(data), EventStatus)
    THEN [v EXCEPT !.statusMessages = pushStatus(@, Member(data, KeyPayload), FALSE)]
  ELSE IF IsEvent(EventType(data), EventError)
    THEN [v EXCEPT !.statusMessages = pushStatus(@, Member(data, KeyPayload), TRUE),
                   !.latestAnswer = <<>>, !.answer = <<>>]
  ELSE v

\* The switch of handleLine on a parsed record.
ApplyChunk(v, data) ==
  IF IsEvent(EventType(data), EventText)
    THEN [v EXCEPT !.latestAnswer = @ \o TextPayload(data),
                   !.answer = @ \o TextPayload(data)]
  ELSE IF IsEvent(EventType(data), EventStatus)
    THEN [v EXCEPT !.statusMessages = pushStatus(@, Member(data, KeyPayload), FALSE)]
  ELSE IF IsEvent(EventType(data), EventError)
    THEN [v EXCEPT !.statusMessages = pushStatus(@, Member(data, KeyPayload), TRUE)]
  ELSE v

\* A handleLine without the try: what JSON.parse throws is shown as an error.
handleLineNoCatch(v, rawLine) ==
  LET line == Trim(rawLine)
      parsed == JSONparse(CleanLine(line))
      seen == [v EXCEPT !.handled = Append(@, rawLine)]
  IN IF line = <<>> THEN seen
     ELSE IF ~parsed.ok \/ parsed.v.t = "null"
       THEN [seen EXCEPT !.statusMessages = pushStatus(@, JString(line), TRUE)]
     ELSE ApplyChunk(seen, parsed.v)

\* handleLine: a blank line returns at once; JSON.parse throwing, and the
\* TypeError of reading a property of null, are caught and logged.
handleLine(v, rawLine) ==
  LET line == Trim(rawLine)
      parsed == JSONparse(CleanLine(line))
      seen == [v EXCEPT !.handled = Append(@, rawLine)]
  IN IF line = <<>> THEN seen
     ELSE IF ~parsed.ok \/ parsed.v.t = "null" THEN seen
     ELSE ApplyChunk(seen, parsed.v)

\* for (const line of lines) handleLine(line)
RECURSIVE HandleLines(_, _)
HandleLines(v, lines) ==
  IF lines = <<>> THEN v ELSE HandleLines(handleLine(v, Head(lines)), Tail(lines))

\* decoder.decode(value, { stream: true })
Decode(pend, value) == DecodeStream(pend, value)

Front(seq) == SubSeq(seq, 1, Len(seq) - 1)
Last(seq) == seq[Len(seq)]

\* A turn of the read loop that keeps the last line handled in the buffer.
FeedKeepsLine(v, pend, buffer, value) ==
  LET d == Decode(pend, value)
      lines == Split(buffer \o d.text)
  IN [view |-> HandleLines(v, Front(lines)), pend |-> d.pend,
      buffer |-> IF Len(lines) > 1
                   THEN lines[Len(lines) - 1] \o <<NL>> \o Last(lines)
                   ELSE Last(lines)]

\* One turn of the read loop on a byte range: decode, split, keep the last
\* piece as the buffer, handle the lines before it.
Feed(v, pend, buffer, value) ==
  LET d == Decode(pend, value)
      lines == Split(buffer \o d.text)
  IN [view |-> HandleLines(v, Front(lines)), pend |-> d.pend, buffer |-> Last(lines)]

\* An end of the loop that drops the buffer.
NoFlush(v, buffer) == v

\* if (buffer.trim()) handleLine(buffer)
Flush(v, buffer) == IF Trim(buffer) # <<>> THEN handleLine(v, buffer) ELSE v

\* A read loop that does not look at the flag.
LoopForever(isCancelled) == TRUE

\* while (!isCancelled)
LoopContinues(isCancelled) == ~isCancelled

(***************************************************************************)
(* The server's side of the wire                                           *)
(***************************************************************************)

\* One line of a response: its text, and what the server meant by it: the
\* event and the payload of a chunk (a string payload as its text, any other as
\* its JSON), or the type when the line names its kind there. kind tells the
\* lines apart: "chunk" for a chunk of the four
\* events, "unknown" for an object that names no event or another one, "alias"
\* for an object that names its event in the field type, "junk" for a line
\* that is no JSON object, "blank" for an empty line.
Item(kind, event, type, payload, line) ==
  [kind |-> kind, event |-> event, type |-> type, payload |-> payload, line |-> line]

JsonHead == Str("{\"event\":\"")
JsonMiddle == Str("\",\"payload\":")

\* A chunk serialised as one JSON object, {"event":...,"payload":...}.
ToJson(event, payloadJson) ==
  JsonHead \o Str(event) \o JsonMiddle \o payloadJson \o <<RBRACE>>

\* A chunk of one of the four events whose payload is the string p.
Chunk(event, p) == Item("chunk", event, "", p, ToJson(event, Quoted(p)))

\* A chunk whose payload is the JSON value json.
ChunkOf(event, json) == Item("chunk", event, "", Str(json), ToJson(event, Str(json)))

\* A line that is given as it stands.
RawLine(kind, line) == Item(kind, "", "", <<>>, Str(line))

\* An object with the event, the type and the payload p, as the line says.
Alias(event, type, p, line) == Item("alias", event, type, Str(p), Str(line))

\* The text of a response: every line ends with a newline, the last one only
\* when the response is terminated.
WireText(items, terminated) ==
  Flatten([i \in 1..Len(items) |->
             items[i].line
             \o (IF i < Len(items) \/ terminated THEN <<NL>> ELSE <<>>)])

Response(items, terminated) ==
  [sent |-> items, terminated |-> terminated,
   body |-> Utf8Encode(WireText(items, terminated))]

(***************************************************************************)
(* State                                                                   *)
(***************************************************************************)

VARIABLES
  messages,        \* App: the message list
  activeQuestion,  \* App: <<>> for null, <<q>> for the question q
  answer,          \* ChatWindow: the live answer
  statusMessages,  \* ChatWindow: the label list
  isStreaming,     \* ChatWindow
  streams,         \* the runs of the stream effect, in the order they started
  searchBar,       \* SearchBar: query, isComposing and the event handled last
  requests,        \* the server: the requests it has received, in order
  chat_history     \* the server: the rows of the table chat_history, in order

chat == <<messages, activeQuestion, answer, statusMessages, isStreaming, streams>>
server == <<requests, chat_history>>
vars == <<messages, activeQuestion, answer, statusMessages, isStreaming, streams,
          searchBar, requests, chat_history>>

\* The greeting App starts with.
Greeting ==
  <<50504, 45397, 54616, 49464, 50836, 32, 128075, 32, 76, 76, 101, 88,
    46, 65, 105, 32, 51077, 45768, 45796, 46, 32, 47924, 50631, 51012, 32,
    46020, 50752, 46300, 47540, 44620, 50836, 63>>
Message(role, content) == [role |-> role, content |-> content]

\* The closure of one run of the effect, with the position of fetchStream in
\* pc: "fetch" and "read" while it awaits fetch() and reader.read(), "end" when
\* it has returned. sent, body and pos are the response and how much of it has
\* been read. handled, completed, errors, lateRead, cuts, endedBy, answerAtEnd
\* and labelsAtEnd record what the run did, turn how many user messages there
\* were when it started.
NewStream(q) ==
  [question |-> q, pc |-> "fetch", isCancelled |-> FALSE, aborted |-> FALSE,
   reader |-> "null", buffer |-> <<>>, pend |-> <<>>, latestAnswer |-> <<>>,
   sent |-> <<>>, terminated |-> TRUE, body |-> <<>>, pos |-> 0,
   handled |-> <<>>, completed |-> <<>>, errors |-> <<>>,
   lateRead |-> FALSE, cuts |-> {}, endedBy |-> "none", answerAtEnd |-> <<>>, labelsAtEnd |-> <<>>,
   turn |-> 0]

\* An event of the textarea, the button or the form.
Event(type, key, shiftKey) == [type |-> type, key |-> key, shiftKey |-> shiftKey]
NoEvent == Event("none", "", FALSE)

Init ==
  /\ searchBar = [query |-> <<>>, isComposing |-> FALSE, event |-> NoEvent]
  /\ requests = <<>>
  /\ chat_history = <<>>
  /\ messages = <<Message("assistant", Greeting)>>
  /\ activeQuestion = <<>>
  /\ answer = <<>>
  /\ statusMessages = <<>>
  /\ isStreaming = FALSE
  /\ streams = <<>>

(***************************************************************************)
(* App                                                                     *)
(***************************************************************************)

App == [messages |-> messages, activeQuestion |-> activeQuestion]

\* A handler that starts the list anew with the question.
handleSearchAnew(app, query) ==
  IF Trim(query) = <<>> THEN app
  ELSE [messages |-> <<Message("user", query)>>, activeQuestion |-> <<query>>]

handleSearch(app, query) ==
  IF Trim(query) = <<>> THEN app
  ELSE [messages |-> Append(app.messages, Message("user", query)),
        activeQuestion |-> <<query>>]

\* A handler that appends the answer whatever it is.
handleStreamCompleteAlways(app, ans) ==
  [messages |-> Append(app.messages, Message("assistant", ans)),
   activeQuestion |-> <<>>]

handleStreamComplete(app, ans) ==
  [messages |-> IF Trim(ans) # <<>>
                  THEN Append(app.messages, Message("assistant", ans))
                  ELSE app.messages,
   activeQuestion |-> <<>>]

\* The words App puts before the message of a failed stream.
ErrorIntro ==
  <<51396, 49569, 54633, 45768, 45796, 46, 32, 50724, 47448, 44032, 32, 48156,
    49373, 54664, 49845, 45768, 45796, 58, 32>>

handleStreamError(app, message) ==
  [messages |-> Append(app.messages, Message("assistant", ErrorIntro \o message)),
   activeQuestion |-> <<>>]

(***************************************************************************)
(* ChatWindow: the stream effect                                           *)
(***************************************************************************)

\* An effect without a cleanup.
NoCleanup(st) == st

\* The cleanup the effect returns.
Cleanup(st) ==
  [st EXCEPT !.isCancelled = TRUE, !.aborted = TRUE,
             !.reader = IF @ = "null" THEN "null" ELSE "cancelled"]

\* The run of the effect that has not been cleaned up: the last one, while a
\* question is active.
Current == IF activeQuestion # <<>> THEN Len(streams) ELSE 0

View(st) ==
  [latestAnswer |-> st.latestAnswer, answer |-> answer,
   statusMessages |-> statusMessages, handled |-> st.handled]

Keep(st, v) == [st EXCEPT !.latestAnswer = v.latestAnswer, !.handled = v.handled]

\* How many questions a run of the model submits.
MaxSubmits == 2

UsersIn(list) == Cardinality({i \in 1..Len(list) : list[i].role = "user"})
UserCount == UsersIn(messages)

\* What React does after a handler has set state: when activeQuestion has
\* changed, the cleanup of the run in place, then a new run of the effect, up
\* to its await of fetch(); then the reset effect on [isStreaming,
\* activeQuestion]. app, strs, streaming, ans and labels are the state the
\* handler leaves.
Render(app, strs, streaming, ans, labels) ==
  LET rerun == app.activeQuestion # activeQuestion
      cleaned == IF rerun /\ activeQuestion # <<>>
                   THEN [strs EXCEPT ![Len(strs)] = Cleanup(@)]
                   ELSE strs
      start == rerun /\ app.activeQuestion # <<>>
      reset == /\ rerun \/ streaming # isStreaming
               /\ ~streaming
               /\ app.activeQuestion = <<>>
  IN /\ messages' = app.messages
     /\ activeQuestion' = app.activeQuestion
     /\ streams' = IF start
                     THEN Append(cleaned, [NewStream(app.activeQuestion[1]) EXCEPT
                                             !.turn = UsersIn(app.messages)])
                   ELSE cleaned
     /\ answer' = IF start \/ reset THEN <<>> ELSE ans
     /\ statusMessages' = IF start \/ reset THEN <<>> ELSE labels
     /\ isStreaming' = IF start THEN TRUE ELSE streaming

\* const shouldShowLiveAnswer = isStreaming || (!!answer && activeQuestion)
shouldShowLiveAnswer == isStreaming \/ (answer # <<>> /\ activeQuestion # <<>>)

\* A commit after a handler of App or ChatWindow: SearchBar is not rendered
\* anew.
Commit(app, strs, streaming, ans, labels) ==
  /\ Render(app, strs, streaming, ans, labels)
  /\ UNCHANGED <<searchBar, server>>

\* A catch and a finally block that do not look at the flag.
NeverSuppressed(isCancelled) == FALSE

\* A catch and a finally block that never call back.
AlwaysSuppressed(isCancelled) == TRUE

\* The guards of the catch and the finally block: a cancelled run returns from
\* the one and skips the other.
Suppressed(isCancelled) == isCancelled

\* The end of fetchStream for the run s, left in st with the view v: the catch
\* block when an await has thrown message, then the finally block.
Settle(s, st, v, caught, message, how) ==
  LET ended == [Keep(st, v) EXCEPT !.pc = "end", !.endedBy = how]
      labels == IF caught THEN pushStatus(v.statusMessages, JString(message), TRUE)
                ELSE v.statusMessages
      failed == IF caught THEN handleStreamError(App, message) ELSE App
      told == [ended EXCEPT !.completed = Append(@, v.latestAnswer),
                            !.errors = IF caught THEN Append(@, message) ELSE @,
                            !.answerAtEnd = v.answer,
                            !.labelsAtEnd = labels]
  IN IF Suppressed(st.isCancelled)
       THEN Commit(App, [streams EXCEPT ![s] = ended], isStreaming,
                   v.answer, v.statusMessages)
       ELSE Commit(handleStreamComplete(failed, v.latestAnswer),
                   [streams EXCEPT ![s] = told], FALSE, v.answer, labels)

\* The head of the read loop: the next reader.read(), or the flush of the
\* buffer and the end.
Loop(s, st, v) ==
  IF LoopContinues(st.isCancelled)
    THEN Commit(App,
                [streams EXCEPT ![s] =
                   [Keep(st, v) EXCEPT !.pc = "read",
                      !.lateRead = @ \/ st.isCancelled]],
                isStreaming, v.answer, v.statusMessages)
    ELSE Settle(s, st, Flush(v, st.buffer), FALSE, <<>>, "cancel")

FailMessage == Str("Failed to fetch")
HttpMessage == Str("HTTP 500: Internal Server Error")
NoBodyMessage ==
  <<49436, 48260, 50640, 49436, 32, 48712, 32, 49828, 53944, 47548, 51060, 32,
    48152, 54872, 46104, 50632, 49845, 45768, 45796, 46>>

(***************************************************************************)
(* Actions                                                                 *)
(***************************************************************************)

\* SearchBar hands query to App.handleSearch.
Submit(query) ==
  /\ UserCount < MaxSubmits
  /\ Commit(handleSearch(App, query), streams, isStreaming, answer, statusMessages)

\* fetch() resolves with an ok response that has a body.
FetchOk(s, response) ==
  /\ streams[s].pc = "fetch"
  /\ Loop(s, [streams[s] EXCEPT !.reader = "open", !.sent = response.sent,
                !.terminated = response.terminated, !.body = response.body],
          View(streams[s]))

\* fetch() resolves with a response that is not ok.
FetchNotOk(s) ==
  /\ streams[s].pc = "fetch"
  /\ Settle(s, streams[s],
            [View(streams[s]) EXCEPT
               !.statusMessages = pushStatus(@, JString(HttpMessage), TRUE)],
            FALSE, <<>>, "http")

\* fetch() resolves with an ok response without a body.
FetchNoBody(s) ==
  /\ streams[s].pc = "fetch"
  /\ Settle(s, streams[s],
            [View(streams[s]) EXCEPT
               !.statusMessages = pushStatus(@, JString(NoBodyMessage), TRUE)],
            FALSE, <<>>, "nobody")

\* fetch() rejects.
FetchThrow(s) ==
  /\ streams[s].pc = "fetch"
  /\ Settle(s, streams[s], View(streams[s]), TRUE, FailMessage, "throw")

\* How a range ended: within a character, within a line.
Cuts(fed) ==
  {c \in {"char"} : fed.pend # <<>>} \cup {c \in {"line"} : fed.buffer # <<>>}

\* reader.read() resolves with the next n bytes of the body.
ReadValue(s, n) ==
  LET st == streams[s]
      fed == Feed(View(st), st.pend, st.buffer,
                  SubSeq(st.body, st.pos + 1, st.pos + n))
  IN /\ st.pc = "read"
     /\ n >= 1
     /\ st.pos + n <= Len(st.body)
     /\ Loop(s, [st EXCEPT !.pos = @ + n, !.pend = fed.pend, !.buffer = fed.buffer,
                           !.cuts = @ \cup Cuts(fed)],
             fed.view)

\* reader.read() resolves with done, the body being read to its end.
ReadDone(s) ==
  /\ streams[s].pc = "read"
  /\ streams[s].pos = Len(streams[s].body)
  /\ Settle(s, streams[s], Flush(View(streams[s]), streams[s].buffer),
            FALSE, <<>>, "done")

\* reader.read() rejects.
ReadThrow(s) ==
  /\ streams[s].pc = "read"
  /\ Settle(s, streams[s], View(streams[s]), TRUE, FailMessage, "throw")

Streams == 1..Len(streams)

(***************************************************************************)
(* The application: questions, superseded and answered                     *)
(***************************************************************************)

\* The queries SearchBar hands over: two questions and a blank one.
Queries == {Str("q"), Str("r"), Str(" ")}

\* The responses of the server: an answer in one record, a label and an answer
\* whose last record has no newline, a response without a record.
AppResponses ==
  { Response(<<Chunk("text", Str("a"))>>, TRUE),
    Response(<<Chunk("status", Str("s")), Chunk("text", Str("b"))>>, FALSE),
    Response(<<>>, TRUE) }

\* The ranges that end with one of the bytes marks, or with the body.
RangesTo(st, marks) ==
  IF st.pc # "read" THEN {}
  ELSE {n \in 1..(Len(st.body) - st.pos) :
          st.body[st.pos + n] \in marks \/ st.pos + n = Len(st.body)}

\* The ranges the transport hands over here end with a line or with the body.
LineRanges(st) == RangesTo(st, {NL})

Next ==
  \/ \E q \in Queries : Submit(q)
  \/ \E s \in Streams, r \in AppResponses : FetchOk(s, r)
  \/ \E s \in Streams : FetchNotOk(s)
  \/ \E s \in Streams : FetchNoBody(s)
  \/ \E s \in Streams : FetchThrow(s)
  \/ \E s \in Streams : \E n \in LineRanges(streams[s]) : ReadValue(s, n)
  \/ \E s \in Streams : ReadDone(s)
  \/ \E s \in Streams : ReadThrow(s)

Spec == Init /\ [][Next]_vars

\* The transport settles what the run s awaits: fetch() or reader.read()
\* resolves or rejects.
Settles(s) ==
  /\ s \in Streams
  /\ \/ FetchThrow(s)
     \/ FetchNotOk(s)
     \/ FetchNoBody(s)
     \/ ReadThrow(s)
     \/ ReadDone(s)
     \/ \E r \in AppResponses : FetchOk(s, r)
     \/ \E n \in LineRanges(streams[s]) : ReadValue(s, n)

\* The application with a transport that settles every await in the end.
SpecLive == Init /\ [][Next]_vars /\ \A s \in 1..MaxSubmits : WF_vars(Settles(s))

(***************************************************************************)
(* SearchBar                                                               *)
(***************************************************************************)

\* How long a query gets.
MaxQuery == 2

\* The characters typed.
Typed == {Code("q"), Code(" "), NL}

\* A handleSubmit that hands on what was typed, as it was typed.
handleSubmitAsTyped(ev) ==
  IF searchBar.query # <<>>
    THEN /\ Render(handleSearch(App, searchBar.query), streams, isStreaming,
                   answer, statusMessages)
         /\ searchBar' = [searchBar EXCEPT !.query = <<>>, !.event = ev]
         /\ UNCHANGED server
    ELSE /\ UNCHANGED <<chat, server>>
         /\ searchBar' = [searchBar EXCEPT !.event = ev]

\* handleSubmit, called for the event ev: a query that is not blank goes,
\* trimmed, to onSearch, which is App.handleSearch, and is cleared.
handleSubmit(ev) ==
  LET trimmedQuery == Trim(searchBar.query) IN
  IF trimmedQuery # <<>>
    THEN /\ Render(handleSearch(App, trimmedQuery), streams, isStreaming, answer,
                   statusMessages)
         /\ searchBar' = [searchBar EXCEPT !.query = <<>>, !.event = ev]
         /\ UNCHANGED server
    ELSE /\ UNCHANGED <<chat, server>>
         /\ searchBar' = [searchBar EXCEPT !.event = ev]

\* A test of the key alone.
EnterAlways(key, shiftKey, isComposing) == key = "Enter"

\* The test of handleKeyDown.
EnterSubmits(key, shiftKey, isComposing) ==
  key = "Enter" /\ ~shiftKey /\ ~isComposing

\* keydown in the textarea. A key that is not taken does what the textarea
\* does with it: Enter outside a composition adds a line break, which comes
\* back through onChange.
handleKeyDown(key, shiftKey) ==
  LET ev == Event("keydown", key, shiftKey) IN
  /\ UserCount < MaxSubmits
  /\ IF EnterSubmits(key, shiftKey, searchBar.isComposing)
       THEN handleSubmit(ev)
       ELSE /\ UNCHANGED <<chat, server>>
            /\ searchBar' =
                 [searchBar EXCEPT
                    !.query = IF key = "Enter" /\ ~searchBar.isComposing
                                               /\ Len(@) < MaxQuery
                                THEN Append(@, NL) ELSE @,
                    !.event = ev]

\* onChange: a character is typed, within a composition or not.
onChange(c) ==
  /\ Len(searchBar.query) < MaxQuery
  /\ searchBar' = [searchBar EXCEPT !.query = Append(@, c),
                                   !.event = Event("change", "", FALSE)]
  /\ UNCHANGED <<chat, server>>

onCompositionStart ==
  /\ ~searchBar.isComposing
  /\ searchBar' = [searchBar EXCEPT !.isComposing = TRUE,
                                   !.event = Event("compositionstart", "", FALSE)]
  /\ UNCHANGED <<chat, server>>

onCompositionEnd ==
  /\ searchBar.isComposing
  /\ searchBar' = [searchBar EXCEPT !.isComposing = FALSE,
                                   !.event = Event("compositionend", "", FALSE)]
  /\ UNCHANGED <<chat, server>>

\* A click on the button, which is disabled for a blank query and within a
\* composition, submits the form.
onSubmit ==
  /\ UserCount < MaxSubmits
  /\ Trim(searchBar.query) # <<>>
  /\ ~searchBar.isComposing
  /\ handleSubmit(Event("submit", "", FALSE))

NextSearch ==
  \/ \E key \in {"Enter", "a"}, shiftKey \in BOOLEAN : handleKeyDown(key, shiftKey)
  \/ \E c \in Typed : onChange(c)
  \/ onCompositionStart
  \/ onCompositionEnd
  \/ onSubmit

SpecSearch == Init /\ [][NextSearch]_vars

(***************************************************************************)
(* One stream, record by record                                            *)
(***************************************************************************)

\* How many chunks a response holds.
MaxRecords == 2

\* The chunks of a response: text, with a character of three bytes and an
\* escaped newline; a status; an error; a source.
CoreItems ==
  { Chunk("text", Str("a")),
    Chunk("text", <<52395, 10>>),
    Chunk("status", Str("s")),
    Chunk("error", Str("e")),
    ChunkOf("source", "{\"title\":\"t\"}") }

\* The other lines a response may hold, one of them at most.
OddItems ==
  { Item("unknown", "done", "", Str("x"), ToJson("done", Quoted(Str("x")))),
    RawLine("unknown", "{\"payload\":\"x\"}"),
    Alias("", "text", "y", "{\"type\":\"text\",\"payload\":\"y\"}"),
    Alias("", "status", "y", "{\"event\":\"\",\"type\":\"status\",\"payload\":\"y\"}"),
    RawLine("junk", "{\"event\":\"text\",\"payload\":\"z"),
    RawLine("junk", "null"),
    RawLine("junk", "7"),
    RawLine("blank", " "),
    Chunk("status", <<>>),
    ChunkOf("status", "{\"step\":1}") }

Plans(n) == UNION {[1..k -> CoreItems] : k \in 0..n}

Insert(plan, i, item) == SubSeq(plan, 1, i) \o <<item>> \o SubSeq(plan, i + 1, Len(plan))

RecordPlans ==
  Plans(MaxRecords)
    \cup {Insert(p, i, o) : <<p, i, o>> \in
            {t \in Plans(MaxRecords) \X (0..MaxRecords) \X OddItems : t[2] <= Len(t[1])}}

RecordResponses == {Response(p, t) : p \in RecordPlans, t \in BOOLEAN}


\* The one question of a run.
Ask == streams = <<>> /\ Submit(Str("q"))

NextRecords ==
  \/ Ask
  \/ \E s \in Streams, r \in RecordResponses : FetchOk(s, r)
  \/ \E s \in Streams : FetchNotOk(s)
  \/ \E s \in Streams : FetchNoBody(s)
  \/ \E s \in Streams : FetchThrow(s)
  \/ \E s \in Streams : \E n \in LineRanges(streams[s]) : ReadValue(s, n)
  \/ \E s \in Streams : ReadDone(s)
  \/ \E s \in Streams : ReadThrow(s)

SpecRecords == Init /\ [][NextRecords]_vars

(***************************************************************************)
(* One stream, byte by byte                                                *)
(***************************************************************************)

\* How many lines a response holds.
MaxLines == 2

ByteItems == {Chunk("text", <<97, 52395>>), Chunk("status", <<52395>>)}

ByteResponses ==
  {Response(p, t) : p \in UNION {[1..k -> ByteItems] : k \in 0..MaxLines},
                    t \in BOOLEAN}

\* Every range: the next n bytes, for every n.
ByteRanges(st) == IF st.pc # "read" THEN {} ELSE 1..(Len(st.body) - st.pos)

NextBytes ==
  \/ Ask
  \/ \E s \in Streams, r \in ByteResponses : FetchOk(s, r)
  \/ \E s \in Streams : \E n \in ByteRanges(streams[s]) : ReadValue(s, n)
  \/ \E s \in Streams : ReadDone(s)
  \/ \E s \in Streams : ReadThrow(s)

SpecBytes == Init /\ [][NextBytes]_vars

(***************************************************************************)
(* Cancellation and re-issuing                                             *)
(***************************************************************************)

\* The contents of the user messages, in order.
UserMessages ==
  LET users == {i \in 1..Len(messages) : messages[i].role = "user"}
      Nth(k) == CHOOSE i \in users : Cardinality({j \in users : j <= i}) = k
  IN [k \in 1..Cardinality(users) |-> messages[Nth(k)].content]

\* C4: once the cleanup of a run has set its flag, the run calls neither
\* onStreamComplete nor onStreamError, whatever its fetch() or reader.read()
\* resolve with afterwards.
C4_CancelledNeverCalls ==
  [][\A s \in Streams :
       streams[s].isCancelled =>
         /\ streams'[s].completed = streams[s].completed
         /\ streams'[s].errors = streams[s].errors]_vars

\* C4: a run that was cancelled while its read was pending, that was then
\* handed bytes, and that ended without a call.
C4_Witness ==
  \E s \in Streams :
    /\ streams[s].isCancelled
    /\ streams[s].pc = "end"
    /\ streams[s].endedBy = "cancel"
    /\ streams[s].pos > 0
    /\ streams[s].completed = <<>>
    /\ streams[s].errors = <<>>

\* C5: every run, one per question that became active, calls onStreamComplete
\* at most once, and the run that calls it is the one in place, started for
\* the active question.
C5_OneCompletionPerQuestion ==
  /\ [](\A s \in Streams : Len(streams[s].completed) <= 1)
  /\ [][\A s \in Streams :
          streams'[s].completed # streams[s].completed =>
            /\ s = Len(streams)
            /\ activeQuestion = <<streams[s].question>>]_vars

\* C5: two questions became active, the run of the first was superseded and
\* ended, and only the run of the second called onStreamComplete.
C5_Witness ==
  /\ Len(streams) = 2
  /\ streams[1].pc = "end"
  /\ streams[1].completed = <<>>
  /\ Len(streams[2].completed) = 1

\* C6: a cancelled run has issued no reader.read() since its cleanup, its
\* request is aborted, and the reader its read is pending on is cancelled.
C6_CancelledStopsReading ==
  \A s \in Streams :
    streams[s].isCancelled =>
      /\ ~streams[s].lateRead
      /\ streams[s].aborted
      /\ streams[s].pc = "read" => streams[s].reader = "cancelled"

\* C6: a run cancelled with a read pending got bytes from it and left the
\* loop with bytes of the body still unread.
C6_Witness ==
  \E s \in Streams :
    /\ streams[s].isCancelled
    /\ streams[s].reader = "cancelled"
    /\ streams[s].endedBy = "cancel"
    /\ 0 < streams[s].pos
    /\ streams[s].pos < Len(streams[s].body)

\* C7: every user message has a run of the stream effect started for it, in
\* order: a question submitted while a run is in flight starts a new one.
C7_EveryUserMessageHasAStream ==
  /\ Len(streams) = Len(UserMessages)
  /\ \A s \in Streams : streams[s].question = UserMessages[s]

(***************************************************************************)
(* What a response should leave                                            *)
(***************************************************************************)

\* The kind of a record: its event; or its event and, when that is missing or
\* empty, its type.
ByEvent(item) == item.event
Effective(item) == IF item.event # "" THEN item.event ELSE item.type

\* The concatenation of the text payloads.
AnswerOf(Kind(_), items) ==
  Flatten([i \in 1..Len(items) |->
             IF Kind(items[i]) = "text" THEN items[i].payload ELSE <<>>])

\* The status and error payloads that are not empty, errors with the prefix.
LabelsOf(Kind(_), items) ==
  Flatten([i \in 1..Len(items) |->
             IF items[i].payload = <<>> THEN <<>>
             ELSE IF Kind(items[i]) = "status" THEN <<items[i].payload>>
             ELSE IF Kind(items[i]) = "error" THEN <<ErrorPrefix \o items[i].payload>>
             ELSE <<>>])

WellFormed(items) == \A i \in 1..Len(items) : items[i].kind = "chunk"

\* The records handed to handleLine so far.
Delivered(st) == SubSeq(st.sent, 1, Len(st.handled))

\* The lines of a response that are not blank, and the lines handed to
\* handleLine that are not.
LinesOf(items) ==
  Flatten([i \in 1..Len(items) |->
             IF Trim(items[i].line) = <<>> THEN <<>> ELSE <<items[i].line>>])
NonBlank(lines) ==
  Flatten([i \in 1..Len(lines) |->
             IF Trim(lines[i]) = <<>> THEN <<>> ELSE <<lines[i]>>])

\* The view a response leaves when it arrives in one range.
EmptyView ==
  [latestAnswer |-> <<>>, answer |-> <<>>, statusMessages |-> <<>>, handled |-> <<>>]
OneShot(response) ==
  LET fed == Feed(EmptyView, <<>>, <<>>, response.body)
  IN Flush(fed.view, fed.buffer)

\* What a run left: the answer it passed on, the answer and the labels shown.
Left(st) ==
  [latestAnswer |-> st.completed[1], answer |-> st.answerAtEnd,
   statusMessages |-> st.labelsAtEnd]
Same(left, v) ==
  /\ left.latestAnswer = v.latestAnswer
  /\ left.answer = v.answer
  /\ left.statusMessages = v.statusMessages

\* A run that read its response to the end and reported it.
Done(st) == st.endedBy = "done" /\ st.completed # <<>>

(***************************************************************************)
(* Records                                                                 *)
(***************************************************************************)

\* C1: for a response of well-formed records, the answer passed to
\* onStreamComplete is the concatenation, in order, of the payloads of the
\* text records delivered, and of nothing else; a response read to its end
\* has delivered every record.
C1_AnswerIsTextPayloads ==
  \A s \in Streams :
    WellFormed(streams[s].sent) /\ streams[s].completed # <<>> =>
      /\ streams[s].completed = <<AnswerOf(ByEvent, Delivered(streams[s]))>>
      /\ streams[s].endedBy = "done" => Delivered(streams[s]) = streams[s].sent

\* C1: a text record, a status record and a text record with a character of
\* three bytes were delivered, and the answer is the two texts.
C1_Witness ==
  \E s \in Streams :
    /\ Done(streams[s])
    /\ WellFormed(streams[s].sent)
    /\ [i \in 1..Len(streams[s].sent) |-> streams[s].sent[i].event]
         = <<"text", "status", "text">>
    /\ streams[s].completed = <<(<<97, 52395, 10>>)>>

\* The records of a response that are no JSON objects.
Junk(items) == {i \in 1..Len(items) : items[i].kind = "junk"}

\* A response without the records at the places in gone.
Without(items, gone) ==
  Flatten([i \in 1..Len(items) |-> IF i \in gone THEN <<>> ELSE <<items[i]>>])

\* C3: a line that is not valid JSON, or that is JSON but no object, changes
\* neither the answer nor the labels and does not end the stream: a response
\* with such a line leaves what the response without the line leaves, every
\* line of it is handled, and onStreamComplete is called.
C3_JunkLineIsDiscarded ==
  \A s \in Streams :
    LET st == streams[s] IN
    st.endedBy = "done" /\ Junk(st.sent) # {} =>
      /\ Len(st.completed) = 1
      /\ Same(Left(st), OneShot(Response(Without(st.sent, Junk(st.sent)), st.terminated)))
      /\ NonBlank(st.handled) = LinesOf(st.sent)

\* C3: a line of invalid JSON stood between two text records, and the answer
\* reported is the two texts.
C3_Witness ==
  \E s \in Streams :
    /\ Done(streams[s])
    /\ Len(streams[s].sent) = 3
    /\ Junk(streams[s].sent) = {2}
    /\ streams[s].sent[2].line = Str("{\"event\":\"text\",\"payload\":\"z")
    /\ streams[s].sent[1].event = "text"
    /\ streams[s].sent[3].event = "text"
    /\ streams[s].completed = <<streams[s].sent[1].payload \o streams[s].sent[3].payload>>

\* The objects of a response whose kind is none of text, status and error.
Ignorable(Kind(_), items) ==
  {i \in 1..Len(items) :
     /\ items[i].kind \in {"chunk", "unknown", "alias"}
     /\ Kind(items[i]) \notin {"text", "status", "error"}}

\* A response with a record to ignore leaves what the response without it
\* leaves, and every line of it is handled.
IgnoredAs(Kind(_)) ==
  \A s \in Streams :
    LET st == streams[s] IN
    Done(st) /\ Ignorable(Kind, st.sent) # {} =>
      /\ Same(Left(st),
              OneShot(Response(Without(st.sent, Ignorable(Kind, st.sent)), st.terminated)))
      /\ NonBlank(st.handled) = LinesOf(st.sent)

\* C8, as stated: a record whose event is none of text, status and error, a
\* source record and a record without an event among them, changes neither
\* the answer nor the labels, and the records after it are applied.
C8_UnknownEventIsIgnored == IgnoredAs(ByEvent)

\* C8, amended: a record whose kind is none of text, status and error changes
\* neither the answer nor the labels, and the records after it are applied;
\* the kind of a record is its event or, when the event is missing or empty,
\* its type.
C8_UnknownKindIsIgnored == IgnoredAs(Effective)

\* C8: a record without an event and without a type stood between a text
\* record and a status record, and both were applied.
C8_Witness ==
  \E s \in Streams :
    /\ Done(streams[s])
    /\ Len(streams[s].sent) = 3
    /\ streams[s].sent[2].line = Str("{\"payload\":\"x\"}")
    /\ streams[s].sent[1].event = "text"
    /\ streams[s].sent[3].event = "status"
    /\ streams[s].completed = <<streams[s].sent[1].payload>>
    /\ streams[s].labelsAtEnd = <<streams[s].sent[3].payload>>

\* C9: when reader.read() reports done to a run that is not cancelled, a
\* last record without a newline has been handed to handleLine once, after
\* the records before it, and the answer reported is the one the response
\* with the newline leaves.
C9_LastRecordIsFlushed ==
  \A s \in Streams :
    LET st == streams[s] IN
    Done(st) /\ ~st.terminated =>
      /\ NonBlank(st.handled) = LinesOf(st.sent)
      /\ Len(st.completed) = 1
      /\ Same(Left(st), OneShot(Response(st.sent, TRUE)))

\* C9: the last of two text records came without a newline, and the answer
\* reported holds both.
C9_Witness ==
  \E s \in Streams :
    /\ Done(streams[s])
    /\ ~streams[s].terminated
    /\ Len(streams[s].sent) = 2
    /\ streams[s].sent[1].event = "text"
    /\ streams[s].sent[2].event = "text"
    /\ streams[s].sent[1].payload # streams[s].sent[2].payload
    /\ streams[s].handled = <<streams[s].sent[1].line, streams[s].sent[2].line>>
    /\ streams[s].completed = <<streams[s].sent[1].payload \o streams[s].sent[2].payload>>

\* The labels of a run: the ones shown while it runs, the ones it left.
LabelsNow(st) == IF st.pc = "end" THEN st.labelsAtEnd ELSE statusMessages

\* The label of the failure that ended a run.
FailureLabels(st) ==
  IF st.endedBy = "http" THEN <<ErrorPrefix \o HttpMessage>>
  ELSE IF st.endedBy = "nobody" THEN <<ErrorPrefix \o NoBodyMessage>>
  ELSE IF st.endedBy = "throw" THEN <<ErrorPrefix \o FailMessage>>
  ELSE <<>>

IsPrefix(a, b) == Len(a) <= Len(b) /\ SubSeq(b, 1, Len(a)) = a

\* C10, as stated: the labels of a run are the payloads, not empty, of the
\* status and error records delivered, in order, errors with the prefix; the
\* kind of a record is its event.
C10_LabelsAreRecordPayloads ==
  \A s \in Streams :
    LabelsNow(streams[s]) = LabelsOf(ByEvent, Delivered(streams[s]))

\* C10, amended: the labels of a run are the payloads, not empty, of the
\* status and error records delivered, in order, errors with the prefix,
\* followed by one error label when a failed request or read has ended the
\* run; the kind of a record is its event or, when the event is missing or
\* empty, its type; and a step of the run only appends labels.
C10_LabelsAreRecordPayloadsThenFailure ==
  /\ [](\A s \in Streams :
          LabelsNow(streams[s])
            = LabelsOf(Effective, Delivered(streams[s])) \o FailureLabels(streams[s]))
  /\ [][\A s \in Streams :
          streams[s].pc # "end" => IsPrefix(LabelsNow(streams[s]), LabelsNow(streams[s])')]_vars

\* C10: a status record and an error record were delivered between records
\* that add no label, and the labels are the two payloads in that order.
C10_Witness ==
  \E s \in Streams :
    /\ Done(streams[s])
    /\ [i \in 1..Len(streams[s].sent) |-> streams[s].sent[i].event]
         = <<"status", "done", "error">>
    /\ streams[s].labelsAtEnd
         = <<streams[s].sent[1].payload, ErrorPrefix \o streams[s].sent[3].payload>>

(***************************************************************************)
(* Bytes                                                                   *)
(***************************************************************************)

\* C2: however the bytes of a response of well-formed records are split
\* into ranges, a run that reads it to the end leaves the answer and the
\* labels that the response leaves when it arrives in one range.
C2_FragmentationInvariance ==
  \A s \in Streams :
    LET st == streams[s] IN
    Done(st) /\ WellFormed(st.sent) =>
      Same(Left(st), OneShot(Response(st.sent, st.terminated)))

\* C2: a response with a text and a label came in ranges of which one ended
\* within a character and one within a line.
C2_Witness ==
  \E s \in Streams :
    /\ Done(streams[s])
    /\ streams[s].cuts = {"char", "line"}
    /\ streams[s].completed = <<(<<97, 52395>>)>>
    /\ streams[s].labelsAtEnd = <<(<<52395>>)>>

(***************************************************************************)
(* One stream, framed as server-sent events                                *)
(***************************************************************************)

\* How many records a framed response holds.
MaxFrames == 2

\* What a server puts before a record: nothing, the field name of a
\* server-sent event, and the field name with white space after it.
Prefixes == {"", "data:", "data: ", "data:  "}

\* The record item behind the prefix.
Frame(item, prefix) ==
  [kind |-> "frame", event |-> item.event, type |-> item.type,
   payload |-> item.payload, line |-> Str(prefix) \o item.line, bare |-> item]

\* The frames of a plan of <<record, prefix>>; as events, each one is followed
\* by an empty line.
Frames(plan, events) ==
  Flatten([i \in 1..Len(plan) |->
             <<Frame(plan[i][1], plan[i][2])>>
             \o (IF events THEN <<RawLine("blank", "")>> ELSE <<>>)])

FrameResponses ==
  {Response(Frames(plan, events), terminated) :
     plan \in UNION {[1..k -> {Chunk("text", Str("a")), Chunk("text", <<52395, 10>>),
                               Chunk("status", Str("s")), Chunk("error", Str("e"))}
                              \X Prefixes] : k \in 0..MaxFrames},
     events \in BOOLEAN, terminated \in BOOLEAN}

NextFrames ==
  \/ Ask
  \/ \E s \in Streams, r \in FrameResponses : FetchOk(s, r)
  \/ \E s \in Streams : \E n \in LineRanges(streams[s]) : ReadValue(s, n)
  \/ \E s \in Streams : ReadDone(s)

SpecFrames == Init /\ [][NextFrames]_vars

(***************************************************************************)
(* The server: router, law retrieval tool, orchestrator, persistence       *)
(***************************************************************************)

\* How many requests the server receives.
MaxRequests == 2

\* The questions: a structured citation of a unit the store holds, one of a
\* unit it does not hold, and a question without a citation.
Questions == {[cite |-> <<"art1">>], [cite |-> <<"art9">>], [cite |-> <<>>]}

\* The store of retrieval units: normalized key to body text, in text chunks.
Units == [art1 |-> <<Str("b1"), Str("b2")>>]

ToolChunk(kind, payload) == [kind |-> kind, payload |-> payload]

\* Router: a structured citation selects the law retrieval tool with the
\* parsed key; the default is the law retrieval tool without a key.
classify(question) == [tool |-> "law", key |-> question.cite]

\* A request in the orchestrator. pc is the phase of the tool ("phase1" to
\* "phase4", "web" for the delegate of the fallback, "yield" while chunks of
\* todo are being relayed, next being the phase after them), "ended" when the
\* sequence of the tool has ended, "save" within the transaction of
\* Persistence, "closed" after it. calls are the calls made to the store, the
\* vector index, the model and the web search; chunks the chunks relayed;
\* results what the vector index returned.
NewRequest(session, question) ==
  [session |-> session, question |-> question, plan |-> classify(question),
   pc |-> "phase1", next |-> "", todo |-> <<>>, chunks |-> <<>>, calls |-> <<>>,
   results |-> <<>>, retained |-> 0, cancelled |-> FALSE, failed |-> FALSE,
   index |-> 0]

Requests == 1..Len(requests)

Receive(session, question) ==
  /\ Len(requests) < MaxRequests
  /\ requests' = Append(requests, NewRequest(session, question))
  /\ UNCHANGED <<chat, searchBar, chat_history>>

\* The request r goes on as req.
Goes(r, req) ==
  /\ requests' = [requests EXCEPT ![r] = req]
  /\ UNCHANGED <<chat, searchBar, chat_history>>

\* The tool yields the chunks out, one at a time, and goes on with next.
Yields(req, out, next) == [req EXCEPT !.pc = "yield", !.todo = out, !.next = next]

\* A failure that raises on, without a chunk.
Raises(req, what) == [req EXCEPT !.pc = "crashed", !.failed = TRUE]

\* A failure within the tool: one error chunk, and the sequence ends.
Fails(req, what) ==
  [Yields(req, <<ToolChunk("error", Str(what))>>, "ended") EXCEPT !.failed = TRUE]

\* A tool that does not look at the cancellation.
AtAny(r, pc) == requests[r].pc = pc

\* A tool is at a suspension point, and has not been cancelled there.
At(r, pc) == requests[r].pc = pc /\ ~requests[r].cancelled

\* A router that drops the parsed key.
NoKey(plan) == FALSE

\* The plan carries a structured key.
HasKey(plan) == plan.key # <<>>

\* Phase 1 without a key falls through; with one, it looks the key up in the
\* store: a hit yields a status and the body text and ends the sequence, a
\* miss falls through.
Phase1(r, reachable) ==
  LET req == requests[r]
      asked == [req EXCEPT !.calls = Append(@, "store")]
      key == req.plan.key[1]
  IN /\ At(r, "phase1")
     /\ IF ~HasKey(req.plan)
          THEN reachable /\ Goes(r, [req EXCEPT !.pc = "phase2"])
          ELSE IF ~reachable THEN Goes(r, Fails(asked, "store"))
          ELSE IF key \in DOMAIN Units
            THEN Goes(r, Yields(asked,
                                <<ToolChunk("status", Str("match"))>>
                                  \o [i \in 1..Len(Units[key]) |->
                                        ToolChunk("text", Units[key][i])],
                                "ended"))
          ELSE Goes(r, [asked EXCEPT !.pc = "phase2"])

\* How many results the vector index returns at most (top-K).
TopK == 2

\* The results of a search: each one is above the threshold of relevance or
\* below it.
Results == UNION {[1..k -> {"above", "below"}] : k \in 0..TopK}

\* A filter that keeps every result.
RetainedAll(results) == Len(results)

\* The results that clear the threshold.
Retained(results) ==
  Cardinality({i \in 1..Len(results) : results[i] = "above"})

\* Phase 2: the search in the vector index; with no result above the
\* threshold the fallback is next, otherwise the synthesis.
Phase2(r, reachable, results) ==
  LET req == requests[r]
      asked == [req EXCEPT !.calls = Append(@, "index")]
  IN /\ At(r, "phase2")
     /\ IF ~reachable THEN results = <<>> /\ Goes(r, Fails(asked, "index"))
        ELSE Goes(r, [asked EXCEPT !.results = results,
                                   !.retained = Retained(results),
                                   !.pc = IF Retained(results) = 0 THEN "phase4"
                                          ELSE "phase3"])

\* The tokens the model streams.
Tokens == <<Str("t1"), Str("t2")>>

\* Phase 3: the model streams its tokens as text chunks, good of them before
\* it fails if it does; after the text, one source chunk for each unit.
Phase3(r, good) ==
  LET req == requests[r]
      asked == [req EXCEPT !.calls = Append(@, "model")]
      text == [i \in 1..good |-> ToolChunk("text", Tokens[i])]
  IN /\ At(r, "phase3")
     /\ IF good < Len(Tokens)
          THEN Goes(r, [Fails(asked, "model") EXCEPT
                          !.todo = text \o <<ToolChunk("error", Str("model"))>>])
          ELSE Goes(r, Yields(asked,
                              text \o [i \in 1..req.retained |->
                                         ToolChunk("source", Str("unit"))],
                              "ended"))

\* Phase 4: a status, then the web search tool, whose sequence is relayed as
\* it is: a text, or the error chunk of that tool.
Phase4(r) ==
  /\ At(r, "phase4")
  /\ Goes(r, Yields(requests[r], <<ToolChunk("status", Str("none"))>>, "web"))

Web(r, reachable) ==
  LET asked == [requests[r] EXCEPT !.calls = Append(@, "web")] IN
  /\ At(r, "web")
  /\ IF reachable THEN Goes(r, Yields(asked, <<ToolChunk("text", Str("w"))>>, "ended"))
     ELSE Goes(r, Fails(asked, "web"))

\* The orchestrator relays the next chunk of the tool; a tool that has been
\* cancelled notices it at its next suspension point.
Yield(r) ==
  LET req == requests[r] IN
  /\ req.pc = "yield"
  /\ Goes(r, [req EXCEPT !.chunks = Append(@, Head(req.todo)),
                         !.todo = Tail(@),
                         !.pc = IF Tail(req.todo) = <<>> THEN req.next ELSE @])

\* The client disconnects while the tool runs.
Cancel(r) ==
  /\ requests[r].pc \in {"phase1", "phase2", "phase3", "phase4", "web", "yield"}
  /\ ~requests[r].cancelled
  /\ Goes(r, [requests[r] EXCEPT !.cancelled = TRUE])

\* The concatenation of the text chunks.
TextOf(chunks) ==
  Flatten([i \in 1..Len(chunks) |->
             IF chunks[i].kind = "text" THEN chunks[i].payload ELSE <<>>])

\* The rows of a session.
RowsOf(session) ==
  {i \in 1..Len(chat_history) : chat_history[i].session_id = session}

\* save, first statement of the transaction: the turn index to write next.
SaveRead(r) ==
  LET mine == {chat_history[i].turn_index : i \in RowsOf(requests[r].session)} IN
  /\ At(r, "ended")
  /\ Goes(r, [requests[r] EXCEPT !.pc = "save",
                                 !.index = IF mine = {} THEN 1 ELSE Max(mine) + 1])

\* CREATE TABLE chat_history: the primary key is id, role is one of two; the
\* indexes of the table are not unique.
Rejects(table, row) ==
  \/ row.role \notin {"user", "assistant"}
  \/ \E i \in 1..Len(table) : table[i].id = row.id

Row(id, req, r, index, role, content) ==
  [id |-> id, session_id |-> req.session, turn_index |-> index, role |-> role,
   content |-> content, metadata |-> [tool |-> req.plan.tool, request |-> r]]

\* save, the inserts and the commit: the user turn and the assistant turn,
\* both or neither.
SaveWrite(r) ==
  LET req == requests[r]
      id == Len(chat_history) + 1
      user == Row(id, req, r, req.index, "user", req.question.cite)
      assistant == Row(id + 1, req, r, req.index + 1, "assistant", TextOf(req.chunks))
      both == Append(Append(chat_history, user), assistant)
  IN /\ req.pc = "save"
     /\ requests' = [requests EXCEPT ![r].pc = "closed"]
     /\ chat_history' = IF Rejects(chat_history, user)
                            \/ Rejects(Append(chat_history, user), assistant)
                          THEN chat_history ELSE both
     /\ UNCHANGED <<chat, searchBar>>

Sessions == {"s1"}

NextServer ==
  \/ \E session \in Sessions, question \in Questions : Receive(session, question)
  \/ \E r \in Requests, reachable \in BOOLEAN : Phase1(r, reachable)
  \/ \E r \in Requests, reachable \in BOOLEAN, results \in Results :
        Phase2(r, reachable, results)
  \/ \E r \in Requests, good \in 0..Len(Tokens) : Phase3(r, good)
  \/ \E r \in Requests : Phase4(r)
  \/ \E r \in Requests, reachable \in BOOLEAN : Web(r, reachable)
  \/ \E r \in Requests : Yield(r)
  \/ \E r \in Requests : Cancel(r)
  \/ \E r \in Requests : SaveRead(r)
  \/ \E r \in Requests : SaveWrite(r)

SpecServer == Init /\ [][NextServer]_vars

(***************************************************************************)
(* The end of a stream                                                     *)
(***************************************************************************)

\* C11: a response whose last record is an error chunk, read to its end,
\* leaves what the records before it leave and one error label more;
\* onStreamComplete is called once, with the text received, and
\* onStreamError is not called.
C11_ErrorRecordCompletes ==
  \A s \in Streams :
    LET st == streams[s] IN
    /\ st.endedBy = "done"
    /\ st.sent # <<>>
    /\ Last(st.sent).kind = "chunk"
    /\ Last(st.sent).event = "error"
    => LET before == OneShot(Response(Front(st.sent), TRUE)) IN
       /\ st.completed = <<before.latestAnswer>>
       /\ st.answerAtEnd = before.answer
       /\ st.labelsAtEnd = Append(before.statusMessages, ErrorPrefix \o Last(st.sent).payload)
       /\ st.errors = <<>>

\* C11: a text record and then an error record came, the stream ended, and
\* the text was reported and appended as the answer.
C11_Witness ==
  \E s \in Streams :
    /\ Done(streams[s])
    /\ Len(streams[s].sent) = 2
    /\ streams[s].sent[1].event = "text"
    /\ streams[s].sent[2].event = "error"
    /\ streams[s].completed = <<streams[s].sent[1].payload>>
    /\ streams[s].errors = <<>>
    /\ Last(messages) = Message("assistant", streams[s].sent[1].payload)

\* C12: a step in which a run calls onStreamComplete appends one assistant
\* message with the answer when the answer is not blank and none when it is,
\* after the message of an onStreamError call of the same step, if any, and
\* leaves no question active.
C12_CompletionAppendsAnswer ==
  [][\A s \in Streams :
       streams'[s].completed # streams[s].completed =>
         LET ans == Last(streams'[s].completed)
             failed == IF streams'[s].errors # streams[s].errors
                         THEN <<Message("assistant",
                                        ErrorIntro \o Last(streams'[s].errors))>>
                         ELSE <<>>
             said == IF Trim(ans) # <<>> THEN <<Message("assistant", ans)>> ELSE <<>>
         IN /\ messages' = messages \o failed \o said
            /\ activeQuestion' = <<>>]_vars

\* C12: one run ended with a blank answer and added no message, the next one
\* ended with an answer, which is the last message; no question is active.
C12_Witness ==
  /\ Len(streams) = 2
  /\ streams[1].completed = <<(<<>>)>>
  /\ streams[1].errors = <<>>
  /\ Len(streams[2].completed) = 1
  /\ Trim(streams[2].completed[1]) # <<>>
  /\ streams[2].errors = <<>>
  /\ messages = <<Message("assistant", Greeting),
                  Message("user", streams[1].question),
                  Message("user", streams[2].question),
                  Message("assistant", streams[2].completed[1])>>
  /\ activeQuestion = <<>>

(***************************************************************************)
(* The keys of SearchBar                                                   *)
(***************************************************************************)

\* onSearch is called in this step.
Searches == Len(messages') > Len(messages)

\* The key event this step handles.
KeyDownNow == searchBar'.event.type = "keydown"

\* C13: a keydown that calls onSearch is Enter without Shift outside a
\* composition: Enter between compositionstart and compositionend, and
\* Shift+Enter, never call onSearch.
C13_EnterSubmitsOutsideComposition ==
  [][KeyDownNow =>
       /\ Searches =>
             /\ searchBar'.event.key = "Enter"
             /\ ~searchBar'.event.shiftKey
             /\ ~searchBar.isComposing
       /\ searchBar'.event.key = "Enter"
             /\ (searchBar'.event.shiftKey \/ searchBar.isComposing)
             => UNCHANGED <<messages, activeQuestion, streams>>]_vars

\* C13: Enter alone has searched a question; then, within a composition and
\* with a query typed, Enter was pressed and nothing more was searched.
C13_Witness ==
  /\ searchBar.isComposing
  /\ searchBar.event = Event("keydown", "Enter", FALSE)
  /\ Trim(searchBar.query) # <<>>
  /\ UserCount = 1
  /\ activeQuestion = <<Str("q")>>

(***************************************************************************)
(* The table chat_history                                                  *)
(***************************************************************************)

\* C14: the table never holds two rows with the same session_id and
\* turn_index.
C14_TurnIndexIsUnique ==
  \A i, j \in 1..Len(chat_history) :
    /\ chat_history[i].session_id = chat_history[j].session_id
    /\ chat_history[i].turn_index = chat_history[j].turn_index
    => i = j

(***************************************************************************)
(* The law retrieval tool                                                  *)
(***************************************************************************)

\* All the chunks of the sequence of a tool: relayed, and still to relay.
Sequence(req) == req.chunks \o req.todo

Called(req, what) == \E i \in 1..Len(req.calls) : req.calls[i] = what

Kinds(chunks) == [i \in 1..Len(chunks) |-> chunks[i].kind]

\* Phase 1 has found the unit of the citation.
ExactHit(req) ==
  /\ req.question.cite # <<>>
  /\ req.question.cite[1] \in DOMAIN Units
  /\ req.calls # <<>>
  /\ ~req.failed

\* C15: a question with a structured citation gets the law retrieval tool
\* with the key, and the first call of the tool is the lookup in the store,
\* before any call of the vector index; on a hit the sequence is one status,
\* then the body in text chunks, and its end: no call of the vector index or
\* the model, no source chunk.
C15_CitationIsLookedUpFirst ==
  \A r \in Requests :
    LET req == requests[r] IN
    req.question.cite # <<>> =>
      /\ req.plan = [tool |-> "law", key |-> req.question.cite]
      /\ req.calls # <<>> => req.calls[1] = "store"
      /\ ExactHit(req) =>
            /\ req.calls = <<"store">>
            /\ Kinds(Sequence(req)) = <<"status", "text", "text">>
            /\ TextOf(Sequence(req)) = Flatten(Units[req.question.cite[1]])
            /\ req.pc = "yield" => req.next = "ended"
            /\ req.pc \in {"yield", "ended", "save", "closed"}

\* C15: the citation was found, the status and the body were relayed, and the
\* answer saved is the body.
C15_Witness ==
  \E r \in Requests :
    /\ ExactHit(requests[r])
    /\ requests[r].pc = "closed"
    /\ Kinds(requests[r].chunks) = <<"status", "text", "text">>
    /\ \E i \in 1..Len(chat_history) :
          /\ chat_history[i].role = "assistant"
          /\ chat_history[i].metadata = [tool |-> "law", request |-> r]
          /\ chat_history[i].content = Str("b1b2")

\* The vector index has answered the request, with nothing above the
\* threshold.
NothingRelevant(req) ==
  /\ Called(req, "index")
  /\ ~(req.failed /\ Last(req.calls) = "index")
  /\ \A i \in 1..Len(req.results) : req.results[i] = "below"

\* C16: when the search returns nothing above the threshold the tool goes to
\* the fallback, whose status opens the rest of the sequence, and never calls
\* the model; the model is called only with a result above the threshold.
C16_BelowThresholdFallsBack ==
  \A r \in Requests :
    LET req == requests[r] IN
    /\ NothingRelevant(req) =>
          /\ ~Called(req, "model")
          /\ \/ req.pc = "phase4"
             \/ /\ Sequence(req) # <<>>
                /\ Sequence(req)[1] = ToolChunk("status", Str("none"))
    /\ Called(req, "model") \/ req.pc = "phase3" =>
          /\ \E i \in 1..Len(req.results) : req.results[i] = "above"
          /\ req.retained >= 1

\* C16: a search with one result, below the threshold, after a miss of the
\* citation: the fallback ran and the web search answered.
C16_Witness ==
  \E r \in Requests :
    /\ requests[r].question.cite = <<"art9">>
    /\ requests[r].results = <<"below">>
    /\ requests[r].calls = <<"store", "index", "web">>
    /\ requests[r].pc = "ended"
    /\ Kinds(requests[r].chunks) = <<"status", "text">>

\* The rows written for the request r.
Saved(r) ==
  {i \in 1..Len(chat_history) : chat_history[i].metadata.request = r}

\* C17: a request cancelled while its tool ran has no row in chat_history;
\* rows are written only when the sequence of the tool has ended, and the
\* assistant row holds the concatenation of all its text chunks.
C17_CancelledIsNotPersisted ==
  \A r \in Requests :
    LET req == requests[r] IN
    /\ req.cancelled => Saved(r) = {}
    /\ req.pc \in {"save", "closed"} => req.todo = <<>> /\ ~req.cancelled
    /\ \A i \in Saved(r) :
          /\ req.pc = "closed"
          /\ chat_history[i].role = "assistant" =>
                chat_history[i].content = TextOf(req.chunks)

\* C17: a request was cancelled after its tool had produced text, its
\* sequence has ended since, and the only rows are those of another request.
C17_Witness ==
  \E r, q \in Requests :
    /\ requests[r].cancelled
    /\ requests[r].pc = "ended"
    /\ TextOf(requests[r].chunks) # <<>>
    /\ requests[q].pc = "closed"
    /\ Saved(q) = {1, 2}
    /\ Len(chat_history) = 2

\* C18: a failure in a phase leaves exactly one error chunk in the sequence
\* of the tool, as its last chunk, and the sequence ends there; the tool does
\* not raise.
C18_FailureIsOneLastErrorChunk ==
  \A r \in Requests :
    LET req == requests[r]
        all == Sequence(req)
    IN /\ req.pc # "crashed"
       /\ req.failed =>
             /\ all # <<>>
             /\ Last(all).kind = "error"
             /\ Cardinality({i \in 1..Len(all) : all[i].kind = "error"}) = 1
             /\ req.pc \in {"yield", "ended", "save", "closed"}
             /\ req.pc = "yield" => req.next = "ended"
       /\ ~req.failed => \A i \in 1..Len(all) : all[i].kind # "error"

\* C18: the model failed after one token; the text and then the error chunk
\* were relayed, and the sequence has ended.
C18_Witness ==
  \E r \in Requests :
    /\ requests[r].failed
    /\ requests[r].calls = <<"index", "model">>
    /\ requests[r].pc \in {"ended", "save", "closed"}
    /\ Kinds(requests[r].chunks) = <<"text", "error">>

(***************************************************************************)
(* Framing and the buffer                                                  *)
(***************************************************************************)

\* The records of a framed response as they are without prefix and without
\* the empty lines.
Bare(items) ==
  Flatten([i \in 1..Len(items) |->
             IF items[i].kind = "frame" THEN <<items[i].bare>> ELSE <<>>])

\* C19: a response whose records carry the prefix data:, with or without
\* white space after it, and are or are not followed by an empty line, leaves
\* the answer and the labels of the same records sent bare, one on a line:
\* those of their payloads.
C19_FramingEquivalence ==
  \A s \in Streams :
    LET st == streams[s]
        bare == Bare(st.sent)
    IN Done(st) =>
         /\ Len(st.completed) = 1
         /\ Same(Left(st), OneShot(Response(bare, TRUE)))
         /\ st.completed[1] = AnswerOf(ByEvent, bare)
         /\ st.labelsAtEnd = LabelsOf(ByEvent, bare)

\* C19: a status and a text came as server-sent events, the one with
\* "data: " and the other with "data:", an empty line after each.
C19_Witness ==
  \E s \in Streams :
    /\ Done(streams[s])
    /\ streams[s].sent = <<Frame(Chunk("status", Str("s")), "data: "),
                           RawLine("blank", ""),
                           Frame(Chunk("text", Str("a")), "data:"),
                           RawLine("blank", "")>>
    /\ streams[s].completed = <<Str("a")>>
    /\ streams[s].labelsAtEnd = <<Str("s")>>

\* The bytes read so far, the newlines among them, and the bytes after the
\* last newline.
Got(st) == SubSeq(st.body, 1, st.pos)
NewlinesIn(bytes) == {i \in 1..Len(bytes) : bytes[i] = NL}
AfterLastNewline(bytes) ==
  SubSeq(bytes, Max(NewlinesIn(bytes) \cup {0}) + 1, Len(bytes))

\* C20: after every byte range the buffer holds no newline and is the text
\* after the last newline received (the bytes of a character not yet
\* complete are with the decoder), and the lines handed to handleLine are
\* the complete lines received, each once and in order.
C20_BufferInvariant ==
  \A s \in Streams :
    LET st == streams[s]
        whole == Cardinality(NewlinesIn(Got(st)))
    IN st.pc = "read" =>
         /\ \A i \in 1..Len(st.buffer) : st.buffer[i] # NL
         /\ Utf8Encode(st.buffer) \o st.pend = AfterLastNewline(Got(st))
         /\ st.handled = [i \in 1..whole |-> st.sent[i].line]

\* C20: one line has been handled, and the range after it ended within a
\* character of the second line.
C20_Witness ==
  \E s \in Streams :
    /\ streams[s].pc = "read"
    /\ Len(streams[s].handled) = 1
    /\ streams[s].buffer # <<>>
    /\ streams[s].pend # <<>>

(***************************************************************************)
(* The live view                                                           *)
(***************************************************************************)

\* The run s takes this step.
Steps(s) == s \in Streams /\ streams'[s] # streams[s] /\ Len(streams') = Len(streams)

C22_AtMostOneAssistantMessage ==
  [][\A s \in Streams : Steps(s) => Len(messages') <= Len(messages) + 1]_vars

\* The run s calls onStreamComplete or onStreamError in this step.
Reports(s) ==
  /\ Steps(s)
  /\ \/ streams'[s].completed # streams[s].completed
     \/ streams'[s].errors # streams[s].errors

\* C23: a run that ends after a newer question has been submitted does not
\* set the active question to null with its callbacks.
C23_EndNeverCancelsNewerQuestion ==
  [][\A s \in Streams :
       Reports(s) /\ UserCount > streams[s].turn => activeQuestion' # <<>>]_vars

(***************************************************************************)
(* The end of every stream                                                 *)
(***************************************************************************)

\* The run s has returned and has called onStreamComplete once.
Ended(s) ==
  /\ s \in Streams
  /\ streams[s].pc = "end"
  /\ Len(streams[s].completed) = 1

Superseded(s) == s \in Streams /\ streams[s].isCancelled

Running(s) == s \in Streams /\ ~streams[s].isCancelled /\ streams[s].pc # "end"

\* C24: with a transport that settles every await, a run that is not
\* superseded ends and calls onStreamComplete exactly once; the step that
\* does so leaves isStreaming false and the active question null; and with no
\* question active, a search, of the same text too, starts a run for it.
C24_EveryStreamEnds ==
  /\ \A s \in 1..MaxSubmits : Running(s) ~> (Superseded(s) \/ Ended(s))
  /\ [][\A s \in Streams :
          /\ Len(streams'[s].completed) <= 1
          /\ Steps(s) /\ streams'[s].completed # streams[s].completed =>
                ~isStreaming' /\ activeQuestion' = <<>>]_vars
  /\ [][activeQuestion = <<>> /\ Len(messages') > Len(messages) =>
          /\ Len(streams') = Len(streams) + 1
          /\ Last(streams').question = Last(messages').content
          /\ activeQuestion' = <<Last(messages').content>>]_vars

\* C24: a run ended on its own; the same text was searched again, and its run
\* ended as well.
C24_Witness ==
  /\ Len(streams) = 2
  /\ streams[1].question = streams[2].question
  /\ streams[1].endedBy = "done"
  /\ Ended(1)
  /\ Ended(2)
  /\ ~isStreaming
  /\ activeQuestion = <<>>

Unread(s) ==
  /\ Steps(s)
  /\ ~streams[s].isCancelled
  /\ streams[s].pc = "fetch"
  /\ streams'[s].endedBy \in {"http", "nobody"}

\* C26: a response that is not ok, or that has no body, ends the run without
\* a read: one error label is appended, no record is applied,
\* onStreamError is not called, onStreamComplete is called once with the
\* empty answer, and no message is appended to the list of App.
C26_UnreadResponseEndsQuietly ==
  [][\A s \in Streams :
       Unread(s) =>
         LET st == streams'[s] IN
         /\ st.pc = "end" /\ st.reader = "null" /\ st.pos = 0
         /\ Len(st.labelsAtEnd) = Len(statusMessages) + 1
         /\ SubSeq(st.labelsAtEnd, 1, Len(statusMessages)) = statusMessages
         /\ Last(st.labelsAtEnd) \in
               {ErrorPrefix \o HttpMessage, ErrorPrefix \o NoBodyMessage}
         /\ st.handled = <<>> /\ st.answerAtEnd = answer
         /\ st.errors = <<>>
         /\ st.completed = << <<>> >>
         /\ messages' = messages
         /\ activeQuestion' = <<>> /\ ~isStreaming']_vars

\* C26: the response to the one question had no body; the run ended with the
\* one label, and the list holds the greeting and the question.
C26_Witness ==
  /\ Len(streams) = 1
  /\ streams[1].endedBy = "nobody"
  /\ streams[1].labelsAtEnd = <<ErrorPrefix \o NoBodyMessage>>
  /\ streams[1].completed = << <<>> >>
  /\ streams[1].errors = <<>>
  /\ Len(messages) = 2 /\ messages[2].role = "user"
  /\ activeQuestion = <<>>

(***************************************************************************)
(* The message list of App                                                 *)
(***************************************************************************)

\* This step is a search that App accepts: a step of no run of the effect.
Accepted == vars' # vars /\ \A s \in Streams : ~Steps(s)

\* C27: the message list only grows at its end: every step leaves the
\* messages there were in place and unchanged, the first message is the
\* greeting, an accepted search appends one user message and nothing else,
\* and no other step appends a user message.
C27_MessagesAppendOnly ==
  [][/\ IsPrefix(messages, messages')
     /\ messages'[1] = Message("assistant", Greeting)
     /\ IF Accepted
          THEN \E q \in Queries : messages' = Append(messages, Message("user", q))
          ELSE \A i \in Len(messages) + 1..Len(messages') :
                 messages'[i].role = "assistant"]_vars

\* C27: a question was answered and a second one failed: the list holds the
\* greeting, the first question, its answer, the second question and the
\* message of the failure.
C27_Witness ==
  /\ Len(messages) = 5
  /\ messages[1] = Message("assistant", Greeting)
  /\ messages[2] = Message("user", Str("q"))
  /\ messages[3] = Message("assistant", Str("a"))
  /\ messages[4] = Message("user", Str("r"))
  /\ messages[5] = Message("assistant", ErrorIntro \o FailMessage)

(***************************************************************************)
(* Blank queries                                                           *)
(***************************************************************************)

\* This step calls handleSubmit: the form is submitted, or Enter is pressed
\* without Shift outside a composition.
Submitted ==
  \/ searchBar'.event.type = "submit"
  \/ /\ KeyDownNow
     /\ EnterSubmits(searchBar'.event.key, searchBar'.event.shiftKey,
                     searchBar.isComposing)

\* C28: the submission of a blank query calls no onSearch and no request,
\* appends no message, and leaves the active question and the text of the
\* input as they were; a query that is not blank is handed on trimmed and
\* the input is cleared.
C28_BlankQueryChangesNothing ==
  [][Submitted =>
       IF Trim(searchBar.query) = <<>>
         THEN /\ UNCHANGED chat
              /\ searchBar'.query = searchBar.query
         ELSE /\ messages' = Append(messages, Message("user", Trim(searchBar.query)))
              /\ activeQuestion' = <<Trim(searchBar.query)>>
              /\ searchBar'.query = <<>>]_vars

\* C28: after the question "q" was accepted, Enter was pressed on a query of
\* one space: the space is still in the input, and the list and the active
\* question are those of "q".
C28_Witness ==
  /\ searchBar.query = Str(" ")
  /\ searchBar.event = Event("keydown", "Enter", FALSE)
  /\ ~searchBar.isComposing
  /\ messages = <<Message("assistant", Greeting), Message("user", Str("q"))>>
  /\ activeQuestion = <<Str("q")>>

====
